---- MODULE Spec2Model ----
(***************************************************************************)
(* Batch OCR pipeline (src/app/main.py) and the heuristic field extraction *)
(* (src/app/extract_all_fields.py).                                        *)
(*                                                                         *)
(* Spec / FairSpec : the driver (main, OCRProcessor) and the OCRWorker     *)
(*                   processes around the two multiprocessing queues.      *)
(* ExtractSpec     : extract_all_fields applied to bounded inputs.         *)
(***************************************************************************)
EXTENDS Integers, Sequences, FiniteSets, TLC

VARIABLES
    images,         \* process_directory: the scanned image paths, in order
    ocr,            \* per path: what ocr_engine.predict does for that image
    pc,             \* position of the main process
    started,        \* start_workers: number of workers started so far
    next_img,       \* process_directory: number of paths put on work_queue
    work_queue,     \* OCRProcessor.work_queue (bounded, FIFO)
    result_queue,   \* OCRProcessor.result_queue (unbounded, FIFO)
    wstate,         \* per worker: "new", "get", "busy", "exited"
    witem,          \* per worker: the job it is processing (None when it has none)
    taken,          \* per worker: number of stop sentinels it dequeued
    dequeued,       \* the items taken off work_queue, in order
    sentinels_put,  \* stop_workers: number of None put on work_queue
    joined,         \* stop_workers: number of workers joined
    processed,      \* process_directory: outcomes counted
    results,        \* process_directory: the path -> outcome dict
    artifact,       \* content of ocr_results.json
    writes,         \* number of times ocr_results.json was written
    timed_out,      \* the main process's last step was a result_queue.get timeout
    ex_pc,          \* extraction run: "call" or "done"
    ex_in,          \* extraction run: the arguments (ocr_result, image)
    ex_out,         \* extraction run: what extract_all_fields did
    d_file,         \* dashboard: content of ocr_results.json as the server sees it
    d_before,       \* dashboard: ocr_results.json as it was before the requests
    d_req,          \* dashboard: per request, the body posted to /api/batch/submit
    d_pc,           \* dashboard: per request, the position of its handler
    d_data,         \* dashboard: per request, the handler's local ocr_data
    d_resp          \* dashboard: per request, the response ("" before it returns)

pvars == <<images, ocr, pc, started, next_img, work_queue, result_queue, wstate,
           witem, taken, dequeued, sentinels_put, joined, processed, results,
           artifact, writes, timed_out>>
evars == <<ex_pc, ex_in, ex_out>>
dvars == <<d_file, d_before, d_req, d_pc, d_data, d_resp>>
vars == <<images, ocr, pc, started, next_img, work_queue, result_queue, wstate,
          witem, taken, dequeued, sentinels_put, joined, processed, results,
          artifact, writes, timed_out,
          ex_pc, ex_in, ex_out,
          d_file, d_before, d_req, d_pc, d_data, d_resp>>

----------------------------------------------------------------------------
(* Bounds of the model *)

\* number of OCRWorker processes (main.py passes mp.cpu_count())
NumWorkers == 2
\* largest number of images found by the directory scan
MaxJobs == 3
\* largest number of detections in one OCR result
MaxDetections == 2
\* largest number of Q4 items in the results made of labels and values
MaxQ4Items == 3
\* number of /api/batch/submit requests in flight at the dashboard
NumRequests == 2
\* capacity of work_queue (config['queue_size'], 1000 in main.py:78, scaled down
\* so that batches larger than the capacity are reached)
QueueSize == 2

Workers == 1..NumWorkers

\* image paths are numbered 1, 2, ...; the stop sentinel None is no path
Paths == 1..MaxJobs
NoneItem == 0

----------------------------------------------------------------------------
(* Strings are sequences of one-character strings, so that the string      *)
(* operations of the code (strip, upper, regular expressions, difflib) are *)
(* computed character by character.                                        *)

Digits == {"0", "1", "2", "3", "4", "5", "6", "7", "8", "9"}
UpperSeq == <<"A", "B", "C", "D", "E", "F", "G", "H", "I", "J", "K", "L", "M",
              "N", "O", "P", "Q", "R", "S", "T", "U", "V", "W", "X", "Y", "Z">>
LowerSeq == <<"a", "b", "c", "d", "e", "f", "g", "h", "i", "j", "k", "l", "m",
              "n", "o", "p", "q", "r", "s", "t", "u", "v", "w", "x", "y", "z">>
UpperLetters == {UpperSeq[i] : i \in 1..26}
LowerLetters == {LowerSeq[i] : i \in 1..26}
Whitespace == {" "}

\* Python's None as a field value: a one-element sequence no text equals
None == <<"<None>">>

SetMin(S) == CHOOSE m \in S : \A n \in S : m <= n
SetMax(S) == CHOOSE m \in S : \A n \in S : m >= n
Abs(n) == IF n < 0 THEN -n ELSE n

\* str.upper(), one character
UpperChar(c) ==
    IF c \in LowerLetters
    THEN UpperSeq[CHOOSE i \in 1..26 : LowerSeq[i] = c]
    ELSE c

\* str.upper()
upper(s) == [i \in 1..Len(s) |-> UpperChar(s[i])]

\* str.strip()
strip(s) ==
    LET keep == {i \in 1..Len(s) : s[i] \notin Whitespace}
    IN  IF keep = {} THEN <<>> ELSE SubSeq(s, SetMin(keep), SetMax(keep))

\* str.rstrip(".")
rstrip_dot(s) ==
    LET keep == {i \in 1..Len(s) : s[i] # "."}
    IN  IF keep = {} THEN <<>> ELSE SubSeq(s, 1, SetMax(keep))

\* str.replace(" ", "")
remove_spaces(s) == SelectSeq(s, LAMBDA c : c # " ")

\* str.isalpha(): non-empty and letters only
isalpha(s) == Len(s) > 0 /\ \A i \in 1..Len(s) : s[i] \in UpperLetters \cup LowerLetters

\* str.endswith(p)
endswith(s, p) == Len(s) >= Len(p) /\ SubSeq(s, Len(s) - Len(p) + 1, Len(s)) = p

\* str.startswith(p)
startswith(s, p) == Len(s) >= Len(p) /\ SubSeq(s, 1, Len(p)) = p

\* date_regex.match(s) for r"\d{1,2}[./-]\d{1,2}[./-]\d{2,4}": the pattern
\* matches a prefix of s, anchored at the first character
\* mutant: date_regex.search instead of date_regex.match, the pattern may start
\* anywhere in s
date_regex_search(s) ==
    \E o \in 0..Len(s) : \E a \in 1..2, b \in 1..2, c \in 2..4 :
        /\ o + a + 1 + b + 1 + c <= Len(s)
        /\ \A i \in 1..a : s[o + i] \in Digits
        /\ s[o + a + 1] \in {".", "/", "-"}
        /\ \A i \in (a + 2)..(a + 1 + b) : s[o + i] \in Digits
        /\ s[o + a + b + 2] \in {".", "/", "-"}
        /\ \A i \in (a + b + 3)..(a + b + 2 + c) : s[o + i] \in Digits

date_regex_match(s) ==
    \E a \in 1..2, b \in 1..2, c \in 2..4 :
        /\ a + 1 + b + 1 + c <= Len(s)
        /\ \A i \in 1..a : s[i] \in Digits
        /\ s[a + 1] \in {".", "/", "-"}
        /\ \A i \in (a + 2)..(a + 1 + b) : s[i] \in Digits
        /\ s[a + b + 2] \in {".", "/", "-"}
        /\ \A i \in (a + b + 3)..(a + b + 2 + c) : s[i] \in Digits

\* re.fullmatch(r"[A-Z]?\s?\d{6,}", s)
card_regex_fullmatch(s) ==
    \E l \in 0..1, w \in 0..1 :
        /\ Len(s) - l - w >= 6
        /\ l = 1 => s[1] \in UpperLetters
        /\ w = 1 => s[l + 1] \in Whitespace
        /\ \A i \in (l + w + 1)..Len(s) : s[i] \in Digits

----------------------------------------------------------------------------
(* fuzzywuzzy.fuzz on top of difflib.SequenceMatcher (the matcher fuzzywuzzy *)
(* uses when python-Levenshtein is not installed).  Indices are 0-based and  *)
(* ranges half-open, as in difflib; a[i + 1] is Python's a[i].               *)

\* number of positions from (i, j) on at which a and b agree, inside a[:ahi], b[:bhi]
RECURSIVE CommonRun(_, _, _, _, _, _)
CommonRun(a, b, i, j, ahi, bhi) ==
    IF i < ahi /\ j < bhi /\ a[i + 1] = b[j + 1]
    THEN 1 + CommonRun(a, b, i + 1, j + 1, ahi, bhi)
    ELSE 0

\* SequenceMatcher.find_longest_match(alo, ahi, blo, bhi) without junk: the longest
\* block, of those the one starting earliest in a, of those the earliest in b.
\* flm_best is the length of the longest block, flm_first the choice among the
\* places `hits` where a block of that length starts.
flm_best(a, b, pairs, ahi, bhi) ==
    IF pairs = {} THEN 0
    ELSE SetMax({CommonRun(a, b, p[1], p[2], ahi, bhi) : p \in pairs})

flm_first_j(hits, i, best) == <<i, SetMin({p[2] : p \in {q \in hits : q[1] = i}}), best>>

flm_first(hits, best) == flm_first_j(hits, SetMin({p[1] : p \in hits}), best)

flm_select(a, b, pairs, alo, ahi, blo, bhi, best) ==
    IF best = 0
    THEN <<alo, blo, 0>>
    ELSE flm_first({q \in pairs : CommonRun(a, b, q[1], q[2], ahi, bhi) = best}, best)

flm_in(a, b, pairs, alo, ahi, blo, bhi) ==
    flm_select(a, b, pairs, alo, ahi, blo, bhi, flm_best(a, b, pairs, ahi, bhi))

find_longest_match(a, b, alo, ahi, blo, bhi) ==
    flm_in(a, b, (alo..(ahi - 1)) \X (blo..(bhi - 1)), alo, ahi, blo, bhi)

\* SequenceMatcher.get_matching_blocks(), without the closing (la, lb, 0) block:
\* the longest match m, then the same to its left and to its right
RECURSIVE matching_blocks(_, _, _, _, _, _)
RECURSIVE mb_around(_, _, _, _, _, _, _)
mb_around(a, b, alo, ahi, blo, bhi, m) ==
    IF m[3] = 0
    THEN {}
    ELSE {m}
         \cup (IF alo < m[1] /\ blo < m[2]
               THEN matching_blocks(a, b, alo, m[1], blo, m[2]) ELSE {})
         \cup (IF m[1] + m[3] < ahi /\ m[2] + m[3] < bhi
               THEN matching_blocks(a, b, m[1] + m[3], ahi, m[2] + m[3], bhi) ELSE {})

matching_blocks(a, b, alo, ahi, blo, bhi) ==
    mb_around(a, b, alo, ahi, blo, bhi, find_longest_match(a, b, alo, ahi, blo, bhi))

RECURSIVE SumSizes(_)
SumSizes(blocks) ==
    IF blocks = {} THEN 0
    ELSE LET m == CHOOSE x \in blocks : TRUE
         IN  m[3] + SumSizes(blocks \ {m})

\* SequenceMatcher.ratio() as the fraction <<2 * matches, len(a) + len(b)>>
\* (1.0 when both are empty)
sm_ratio(a, b) ==
    IF Len(a) + Len(b) = 0
    THEN <<1, 1>>
    ELSE <<2 * SumSizes(matching_blocks(a, b, 0, Len(a), 0, Len(b))), Len(a) + Len(b)>>

\* the quotient n / d rounded as Python's round(): a half goes to the even neighbour
round_half_even(q, rem, d) ==
    IF 2 * rem < d THEN q
    ELSE IF 2 * rem > d THEN q + 1
    ELSE IF q % 2 = 0 THEN q ELSE q + 1

\* utils.intr(100 * r) = int(round(100 * r)) for the fraction r = <<n, d>>
intr100(r) == round_half_even((100 * r[1]) \div r[2], (100 * r[1]) % r[2], r[2])

\* fuzz.ratio(s1, s2)
fuzz_ratio_compute(s1, s2) ==
    IF s1 = s2 THEN 100
    ELSE IF Len(s1) = 0 \/ Len(s2) = 0 THEN 0
    ELSE intr100(sm_ratio(s1, s2))

\* fuzz.partial_ratio(s1, s2): the shorter string against the windows of the
\* longer one that the matching blocks (the closing (la, lb, 0) included) point at
pr_window(shorter, longer, long_start) ==
    SubSeq(longer, long_start + 1,
           IF long_start + Len(shorter) <= Len(longer)
           THEN long_start + Len(shorter) ELSE Len(longer))

pr_starts(blocks) == {IF m[2] - m[1] > 0 THEN m[2] - m[1] ELSE 0 : m \in blocks}

pr_scores(shorter, longer) ==
    {sm_ratio(shorter, pr_window(shorter, longer, st)) :
        st \in pr_starts(matching_blocks(shorter, longer, 0, Len(shorter), 0, Len(longer))
                           \cup {<<Len(shorter), Len(longer), 0>>})}

pr_best(scores) ==
    IF \E r \in scores : 1000 * r[1] > 995 * r[2]
    THEN 100
    ELSE intr100(CHOOSE r \in scores : \A o \in scores : r[1] * o[2] >= o[1] * r[2])

pr_ordered(pair) == pr_best(pr_scores(pair[1], pair[2]))

fuzz_partial_ratio_compute(s1, s2) ==
    IF s1 = s2 THEN 100
    ELSE IF Len(s1) = 0 \/ Len(s2) = 0 THEN 0
    ELSE pr_ordered(IF Len(s1) <= Len(s2) THEN <<s1, s2>> ELSE <<s2, s1>>)

\* fuzz.ratio and fuzz.partial_ratio as the code calls them
fuzz_ratio(s1, s2) == fuzz_ratio_compute(s1, s2)
fuzz_partial_ratio(s1, s2) == fuzz_partial_ratio_compute(s1, s2)

----------------------------------------------------------------------------
(* extract_all_fields(ocr_result, image)                                   *)
(*   ocr_result : [input_path, rec_texts, dt_polys]                        *)
(*   image      : NoImage (cv2.imread gave None) or [height, width]        *)
(*   a polygon is a sequence of points <<x, y>>                            *)
(* A call either returns a value or raises.                                *)

NoImage == [height |-> -1, width |-> -1]
Raise(e) == [raised |-> TRUE, error |-> e]
Return(v) == [raised |-> FALSE, value |-> v]

L_CHIEF == << <<"C","H","I","E","F">>, <<"C","H","I","E","S">>, <<"C","H","E","I","F">>,
              <<"C","H","E","F">>, <<"C","H","I","L","S">> >>
L_DISTRICT == << <<"D","I","S","T","R","I","C","T">>, <<"D","I","S","T","N","I","C","T">>,
                 <<"D","I","S","T">>, <<"D","I","S","R","I","C","T">> >>
L_VILLAGE == << <<"V","I","L","L","A","G","E">>, <<"V","I","L","L","G">>,
                <<"V","I","L","A","G","E">>, <<"V","I","L","L">> >>
S_MALE == <<"M","A","L","E">>
S_FEMALE == <<"F","E","M","A","L","E">>
S_NIL == <<"N","I","L">>
V_Male == <<"M","a","l","e">>
V_Female == <<"F","e","m","a","l","e">>
S_Z == <<"Z">>
IGNORE == << <<"R","E","P","U","B","L","I","C">>, <<"O","F">>,
             <<"N","A","T","I","O","N","A","L">>,
             <<"R","E","G","I","S","T","R","A","T","I","O","N">>,
             <<"F","U","L","L","N","A","M","E">>, <<"F","U","L","L"," ","N","A","M","E">>,
             <<"D","A","T","E">>, <<"B","I","R","T","H">>, <<"P","L","A","C","E">>,
             <<"F","A","T","H","E","R">>, <<"M","O","T","H","E","R">>, <<"S","E","X">> >>
Q3_NOISE == << <<"M","A","R","K","S">>, <<"S","P","E","C","I","A","L">>, <<"I","F">>,
               <<"T","H","I","S">>, <<"C","A","R","D">>, <<"I","S">>,
               <<"F","O","U","N","D">>, <<"P","L","E","A","S","E">>, <<"O","R">> >>

\* height, width = image.shape[:2]; x_center, y_center = width // 2, height // 2
image_center(image) == [x |-> image.width \div 2, y |-> image.height \div 2]

\* mutant: >= and <= in place of > and <, a point on an axis falls in a quadrant
classify_point_inclusive(sx, sy, n, x_center, y_center) ==
    IF sx >= x_center * n /\ sy <= y_center * n THEN "Q1"
    ELSE IF sx <= x_center * n /\ sy <= y_center * n THEN "Q2"
    ELSE IF sx <= x_center * n /\ sy >= y_center * n THEN "Q3"
    ELSE IF sx >= x_center * n /\ sy >= y_center * n THEN "Q4"
    ELSE "Mixed"

\* classify_point(x, y) for the centroid x = sx / n, y = sy / n (n > 0)
classify_point(sx, sy, n, x_center, y_center) ==
    IF sx > x_center * n /\ sy < y_center * n THEN "Q1"
    ELSE IF sx < x_center * n /\ sy < y_center * n THEN "Q2"
    ELSE IF sx < x_center * n /\ sy > y_center * n THEN "Q3"
    ELSE IF sx > x_center * n /\ sy > y_center * n THEN "Q4"
    ELSE "Mixed"

\* is_similar(word, label_group)
is_similar(word, label_group) ==
    \E k \in 1..Len(label_group) :
        fuzz_partial_ratio(upper(word), upper(label_group[k])) > 80

RECURSIVE SumCoord(_, _)
SumCoord(poly, c) ==
    IF poly = <<>> THEN 0 ELSE poly[1][c] + SumCoord(Tail(poly), c)

\* the item built from one (text, poly) pair; x is sx / n and y is sy / n
annotate(text, poly, x_center, y_center) ==
    [text |-> upper(strip(text)),
     sx |-> SumCoord(poly, 1), sy |-> SumCoord(poly, 2), n |-> Len(poly),
     quadrant |-> classify_point(SumCoord(poly, 1), SumCoord(poly, 2), Len(poly),
                                 x_center, y_center)]

\* the sort key (i['y'], i['x']) of a is at most that of b
KeyLeq(a, b) ==
    \/ a.sy * b.n < b.sy * a.n
    \/ a.sy * b.n = b.sy * a.n /\ a.sx * b.n <= b.sx * a.n

\* items.sort(key=lambda i: (i['y'], i['x'])): stable
RECURSIVE sort_items(_)
sort_items(items) ==
    IF Len(items) <= 1 THEN items
    ELSE LET front == sort_items(SubSeq(items, 1, Len(items) - 1))
             x == items[Len(items)]
             k == Cardinality({i \in 1..Len(front) : KeyLeq(front[i], x)})
         IN  SubSeq(front, 1, k) \o <<x>> \o SubSeq(front, k + 1, Len(front))

\* [i for i in items if i['quadrant'] == q]
quadrant_items(items, q) == SelectSeq(items, LAMBDA i : i.quadrant = q)

\* first element of seq that is not None, None when there is none
first_not_none(seq) ==
    IF \E k \in 1..Len(seq) : seq[k] # None
    THEN seq[SetMin({k \in 1..Len(seq) : seq[k] # None})]
    ELSE None

\* DOB and registration date: first item of the quadrant matching the date pattern
extract_date(q_items) ==
    first_not_none([k \in 1..Len(q_items) |->
                      IF date_regex_match(q_items[k].text) THEN q_items[k].text ELSE None])

\* mutant: Z is prepended without looking at the first character
normalize_card_always(card_number) == S_Z \o card_number

\* card number: spaces removed, Z prepended unless it starts with Z
normalize_card(card_number) ==
    IF ~startswith(upper(card_number), S_Z) THEN S_Z \o card_number ELSE card_number

\* card number from Q1
extract_card_number(q1_items) ==
    first_not_none([k \in 1..Len(q1_items) |->
                      IF card_regex_fullmatch(q1_items[k].text)
                      THEN normalize_card(remove_spaces(q1_items[k].text))
                      ELSE None])

\* sex read from one Q1 text t, None when it is neither
sex_of(t) ==
    IF fuzz_partial_ratio(t, S_MALE) >= 80 THEN V_Male
    ELSE IF fuzz_partial_ratio(t, S_FEMALE) >= 80 THEN V_Female
    ELSE None

\* sex from Q1
extract_sex(q1_items) ==
    first_not_none([k \in 1..Len(q1_items) |-> sex_of(rstrip_dot(strip(q1_items[k].text)))])

\* all(fuzz.partial_ratio(text, ign) < limit for ign in ignore)
none_matches(text, ignore, limit) ==
    \A g \in 1..Len(ignore) : fuzz_partial_ratio(text, ignore[g]) < limit

\* first name from Q2
extract_first_name(q2_items) ==
    first_not_none([k \in 1..Len(q2_items) |->
                      IF none_matches(q2_items[k].text, IGNORE, 80)
                      THEN q2_items[k].text ELSE None])

\* the Q3 items that are neither labels nor noise
q3_words_of(q3_items) ==
    SelectSeq(q3_items, LAMBDA i : none_matches(i.text, L_CHIEF \o L_VILLAGE \o Q3_NOISE, 85))

\* abs(i['y'] - y_center) of a is smaller than that of b
closer(a, b, y_center) ==
    Abs(a.sy - y_center * a.n) * b.n < Abs(b.sy - y_center * b.n) * a.n

\* mutant: of several words at the smallest distance the last one is taken
extract_village_last_minimum(q3_words, y_center) ==
    IF q3_words = <<>> THEN None
    ELSE q3_words[SetMax({i \in 1..Len(q3_words) :
                            \A j \in 1..Len(q3_words) :
                                ~closer(q3_words[j], q3_words[i], y_center)})].text

\* village from Q3: min(q3_words, key=abs(y - y_center)), the first minimum
extract_village(q3_words, y_center) ==
    IF q3_words = <<>> THEN None
    ELSE q3_words[SetMin({i \in 1..Len(q3_words) :
                            \A j \in 1..Len(q3_words) :
                                ~closer(q3_words[j], q3_words[i], y_center)})].text

\* chief from Q3: the first other word that is not NIL
extract_chief_q3(q3_words, village) ==
    first_not_none([k \in 1..Len(q3_words) |->
                      IF q3_words[k].text # village /\ fuzz_ratio(q3_words[k].text, S_NIL) < 80
                      THEN q3_words[k].text ELSE None])

\* the text after the first label hit among q4_items[:-1], `otherwise` without a hit
successor_of_first(q4_items, hits, otherwise) ==
    IF hits = {} THEN otherwise ELSE q4_items[SetMin(hits) + 1].text

\* mutant: the scan ends at the first DISTRICT label, whatever follows it
extract_district_label_first_label(q4_items) ==
    LET labels == {idx \in 1..(Len(q4_items) - 1) : is_similar(q4_items[idx].text, L_DISTRICT)}
    IN  IF labels # {} /\ isalpha(q4_items[SetMin(labels) + 1].text)
        THEN q4_items[SetMin(labels) + 1].text
        ELSE None

\* district from Q4 via the DISTRICT label
extract_district_label(q4_items) ==
    successor_of_first(q4_items,
                       {idx \in 1..(Len(q4_items) - 1) :
                           /\ is_similar(q4_items[idx].text, L_DISTRICT)
                           /\ q4_items[idx + 1].text # <<>>
                           /\ isalpha(q4_items[idx + 1].text)},
                       None)

\* fallback for district
extract_district_fallback(q4_items) ==
    first_not_none([k \in 1..Len(q4_items) |->
                      IF /\ isalpha(q4_items[k].text)
                         /\ fuzz_partial_ratio(q4_items[k].text, S_NIL) < 80
                         /\ ~is_similar(q4_items[k].text, L_CHIEF \o L_VILLAGE)
                      THEN q4_items[k].text ELSE None])

\* if not district: the fallback decides
district_or_fallback(district, q4_items) ==
    IF district = None \/ district = <<>>
    THEN extract_district_fallback(q4_items)
    ELSE district

\* mutant: the Q4 value is used only when the Q3 rule found no chief
extract_chief_q4_unless_set(q4_items, chief) ==
    IF chief # None THEN chief
    ELSE successor_of_first(q4_items,
                            {idx \in 1..(Len(q4_items) - 1) :
                                /\ is_similar(q4_items[idx].text, L_CHIEF)
                                /\ q4_items[idx + 1].text # <<>>
                                /\ fuzz_ratio(q4_items[idx + 1].text, S_NIL) < 80},
                            None)

\* chief override from Q4 via the CHIEF label
extract_chief_q4(q4_items, chief) ==
    successor_of_first(q4_items,
                       {idx \in 1..(Len(q4_items) - 1) :
                           /\ is_similar(q4_items[idx].text, L_CHIEF)
                           /\ q4_items[idx + 1].text # <<>>
                           /\ fuzz_ratio(q4_items[idx + 1].text, S_NIL) < 80},
                       chief)

\* the returned dict
\* mutant: a key is set only when its rule found a value
fields_record_found_only(q1_items, q2_items, q3_words, q4_items, village) ==
    LET full ==
          [date_of_birth |-> extract_date(q2_items),
           registration_date |-> extract_date(q4_items),
           district_name |-> district_or_fallback(extract_district_label(q4_items), q4_items),
           first_name |-> extract_first_name(q2_items),
           sex |-> extract_sex(q1_items),
           card_number |-> extract_card_number(q1_items),
           village_name |-> village,
           chief_name |-> extract_chief_q4(q4_items, extract_chief_q3(q3_words, village))]
    IN  [k \in {f \in DOMAIN full : full[f] # None} |-> full[k]]

fields_record(q1_items, q2_items, q3_words, q4_items, village) ==
    [date_of_birth |-> extract_date(q2_items),
     registration_date |-> extract_date(q4_items),
     district_name |-> district_or_fallback(extract_district_label(q4_items), q4_items),
     first_name |-> extract_first_name(q2_items),
     sex |-> extract_sex(q1_items),
     card_number |-> extract_card_number(q1_items),
     village_name |-> village,
     chief_name |-> extract_chief_q4(q4_items, extract_chief_q3(q3_words, village))]

rules_on(q1_items, q2_items, q3_words, q4_items, y_center) ==
    fields_record(q1_items, q2_items, q3_words, q4_items,
                  extract_village(q3_words, y_center))

\* the rules applied to the sorted items
extract_from_items(items, y_center) ==
    rules_on(quadrant_items(items, "Q1"), quadrant_items(items, "Q2"),
             q3_words_of(quadrant_items(items, "Q3")), quadrant_items(items, "Q4"),
             y_center)

\* the (text, poly) pairs of zip(rec_texts, rec_polys): zip stops at the shorter
zip_len(rec_texts, rec_polys) ==
    IF Len(rec_texts) <= Len(rec_polys) THEN Len(rec_texts) ELSE Len(rec_polys)

extract_all_fields(ocr_result, image) ==
    IF image = NoImage
    THEN Raise("ValueError")
    ELSE
      LET x_center == image_center(image).x
          y_center == image_center(image).y
          rec_texts == ocr_result.rec_texts
          rec_polys == ocr_result.dt_polys
          n == zip_len(rec_texts, rec_polys)
      IN  IF \E k \in 1..n : Len(rec_polys[k]) = 0
          THEN Raise("ZeroDivisionError")
          ELSE
            LET items == [k \in 1..n |->
                            annotate(rec_texts[k], rec_polys[k], x_center, y_center)]
            IN  Return(extract_from_items(sort_items(items), y_center))

----------------------------------------------------------------------------
(* OCRWorker.process_image                                                 *)

\* what ocr_engine.predict(img) can do for one image
Behaviours == {"ok", "empty", "raise", "hang"}

T_DATE_DMY == <<"1","2","/","0","5","/","1","9","9","0">>
T_DATE_SHORT == <<"1","-","5","-","9","0">>
T_DATE_ISO == <<"1","9","9","0","-","0","5","-","1","2">>
T_JOHN == <<"J","O","H","N">>

\* the result predict returns for a readable image with well-formed detections
OcrResultOf(image_path) ==
    [input_path |-> image_path,
     rec_texts |-> <<T_JOHN, T_DATE_DMY>>,
     dt_polys |-> << <<<<1, 1>>>>, <<<<1, 1>>, <<1, 2>>>> >>]

\* raw_result = self.ocr_engine.predict(img): a list of results, or an exception
predict(image_path, behaviour) ==
    CASE behaviour = "raise" -> Raise("OCRInferenceError")
      [] behaviour = "empty" -> Return(<<>>)
      [] OTHER -> Return(<<OcrResultOf(image_path)>>)

\* a call extract_all_fields(*args): both parameters are required, so Python
\* raises TypeError for any other number of positional arguments
call_extract_all_fields(args) ==
    IF Len(args) # 2
    THEN Raise("TypeError")
    ELSE extract_all_fields(args[1], args[2])

\* [line[1][0] for line in raw_result[0]]: iterating the result dict yields its
\* keys ('input_path', 'rec_texts', 'dt_polys'), of each the second character
raw_texts_of(ocr_result) == <<"n", "e", "t">>

\* the empty dict {} used for processed_fields when raw_result is falsy
EmptyFields == [k \in {} |-> None]

Success(image_path, raw, fields, texts) ==
    [path |-> image_path, raw_result |-> raw, processed_fields |-> fields,
     raw_texts |-> texts, success |-> TRUE]
Failure(image_path, e) ==
    [path |-> image_path, error |-> e, success |-> FALSE]

\* the arguments process_image passes to extract_all_fields
extract_args(raw_result) == <<raw_result[1]>>

\* mutant: 'raw_result': raw_result instead of raw_result[0], so that a falsy
\* raw_result yields a success entry with the empty field record
process_image_whole_result(image_path, behaviour) ==
    LET predicted == predict(image_path, behaviour)
        raw_result == predicted.value
        fields == IF raw_result # <<>>
                  THEN call_extract_all_fields(extract_args(raw_result))
                  ELSE Return(EmptyFields)
        raw_texts == IF raw_result # <<>> THEN raw_texts_of(raw_result[1]) ELSE <<>>
    IN  IF predicted.raised THEN Failure(image_path, predicted.error)
        ELSE IF fields.raised THEN Failure(image_path, fields.error)
        ELSE Success(image_path, raw_result, fields.value, raw_texts)

process_image(image_path, behaviour) ==
    LET predicted == predict(image_path, behaviour)
        raw_result == predicted.value
        fields == IF raw_result # <<>>
                  THEN call_extract_all_fields(extract_args(raw_result))
                  ELSE Return(EmptyFields)
        raw_texts == IF raw_result # <<>> THEN raw_texts_of(raw_result[1]) ELSE <<>>
    IN  IF predicted.raised THEN Failure(image_path, predicted.error)
        ELSE IF fields.raised THEN Failure(image_path, fields.error)
        ELSE IF raw_result = <<>> THEN Failure(image_path, "IndexError")
        ELSE Success(image_path, raw_result[1], fields.value, raw_texts)

----------------------------------------------------------------------------
(* The multiprocessing queues                                              *)

queue_put(q, item) == Append(q, item)
queue_head(q) == Head(q)
queue_rest(q) == Tail(q)

\* mutant: results is keyed by the order of arrival, not by the path
dict_set_by_arrival(d, key, value) ==
    [k \in DOMAIN d \cup {Cardinality(DOMAIN d) + 1} |->
        IF k = Cardinality(DOMAIN d) + 1 THEN value ELSE d[k]]

\* results[result['path']] = result
dict_set(d, key, value) ==
    [k \in DOMAIN d \cup {key} |-> IF k = key THEN value ELSE d[k]]

----------------------------------------------------------------------------
(* The main process: main(), OCRProcessor                                  *)

\* the state after OCRProcessor.__init__, with the images the scan will find
\* and what the OCR engine will do for each
PStart(imgs, behaviour) ==
    /\ images = imgs
    /\ ocr = behaviour
    /\ pc = "start_workers"
    /\ started = 0
    /\ next_img = 0
    /\ work_queue = <<>>
    /\ result_queue = <<>>
    /\ wstate = [w \in Workers |-> "new"]
    /\ witem = [w \in Workers |-> NoneItem]
    /\ taken = [w \in Workers |-> 0]
    /\ dequeued = <<>>
    /\ sentinels_put = 0
    /\ joined = 0
    /\ processed = 0
    /\ results = <<>>
    /\ artifact = <<>>
    /\ writes = 0
    /\ timed_out = FALSE

PInit ==
    \E n \in 0..MaxJobs :
        \E behaviour \in [1..n -> Behaviours] :
            PStart([i \in 1..n |-> i], behaviour)

EInitIdle ==
    /\ ex_pc = "idle"
    /\ ex_in = <<>>
    /\ ex_out = <<>>

\* no request has reached the dashboard
DInitIdle ==
    /\ d_file = <<>>
    /\ d_before = <<>>
    /\ d_req = <<>>
    /\ d_pc = <<>>
    /\ d_data = <<>>
    /\ d_resp = <<>>

Init == PInit /\ EInitIdle /\ DInitIdle

\* mutant: the worker object is created but never started
StartWorker_not_started ==
    /\ pc = "start_workers"
    /\ started < NumWorkers
    /\ started' = started + 1
    /\ pc' = IF started + 1 = NumWorkers THEN "enqueue" ELSE pc
    /\ UNCHANGED <<images, ocr, next_img, work_queue, result_queue, wstate, witem, taken,
                   dequeued, sentinels_put, joined, processed, results, artifact,
                   writes>>
    /\ timed_out' = FALSE
    /\ UNCHANGED <<evars, dvars>>

\* start_workers: worker.start() for the next worker, whose run() begins
StartWorker ==
    /\ pc = "start_workers"
    /\ started < NumWorkers
    /\ started' = started + 1
    /\ wstate' = [wstate EXCEPT ![started + 1] = "get"]
    /\ pc' = IF started + 1 = NumWorkers THEN "enqueue" ELSE pc
    /\ UNCHANGED <<images, ocr, next_img, work_queue, result_queue, witem, taken,
                   dequeued, sentinels_put, joined, processed, results, artifact,
                   writes>>
    /\ timed_out' = FALSE
    /\ UNCHANGED <<evars, dvars>>

\* process_directory: self.work_queue.put(str(img_path)), blocking while full
Enqueue ==
    /\ pc = "enqueue"
    /\ next_img < Len(images)
    /\ Len(work_queue) < QueueSize
    /\ work_queue' = queue_put(work_queue, images[next_img + 1])
    /\ next_img' = next_img + 1
    /\ UNCHANGED <<images, ocr, pc, started, result_queue, wstate, witem, taken,
                   dequeued, sentinels_put, joined, processed, results, artifact,
                   writes>>
    /\ timed_out' = FALSE
    /\ UNCHANGED <<evars, dvars>>

\* process_directory: total_images = len(images); processed = 0; results = {}
BeginDrain ==
    /\ pc = "enqueue"
    /\ next_img = Len(images)
    /\ pc' = "drain"
    /\ processed' = 0
    /\ results' = <<>>
    /\ UNCHANGED <<images, ocr, started, next_img, work_queue, result_queue, wstate,
                   witem, taken, dequeued, sentinels_put, joined, artifact, writes>>
    /\ timed_out' = FALSE
    /\ UNCHANGED <<evars, dvars>>

\* mutant: the result is counted but left on result_queue
DrainGet_peek ==
    /\ pc = "drain"
    /\ processed < Len(images)
    /\ result_queue # <<>>
    /\ LET result == queue_head(result_queue)
       IN  results' = dict_set(results, result.path, result)
    /\ processed' = processed + 1
    /\ UNCHANGED <<images, ocr, pc, started, next_img, work_queue, result_queue, wstate,
                   witem, taken, dequeued, sentinels_put, joined, artifact, writes>>
    /\ timed_out' = FALSE
    /\ UNCHANGED <<evars, dvars>>

\* process_directory: one result taken from result_queue and counted
DrainGet ==
    /\ pc = "drain"
    /\ processed < Len(images)
    /\ result_queue # <<>>
    /\ LET result == queue_head(result_queue)
       IN  results' = dict_set(results, result.path, result)
    /\ result_queue' = queue_rest(result_queue)
    /\ processed' = processed + 1
    /\ UNCHANGED <<images, ocr, pc, started, next_img, work_queue, wstate, witem,
                   taken, dequeued, sentinels_put, joined, artifact, writes>>
    /\ timed_out' = FALSE
    /\ UNCHANGED <<evars, dvars>>

\* mutant: a timeout ends the drain loop and the mapping is written as it is
DrainTimeout_gives_up ==
    /\ pc = "drain"
    /\ processed < Len(images)
    /\ result_queue = <<>>
    /\ artifact' = results
    /\ writes' = writes + 1
    /\ pc' = "stop_put"
    /\ UNCHANGED <<images, ocr, started, next_img, work_queue, result_queue, wstate,
                   witem, taken, dequeued, sentinels_put, joined, processed, results>>
    /\ timed_out' = FALSE
    /\ UNCHANGED <<evars, dvars>>

\* process_directory: result_queue.get(timeout=60) raised Empty; continue
DrainTimeout ==
    /\ pc = "drain"
    /\ processed < Len(images)
    /\ result_queue = <<>>
    /\ UNCHANGED <<images, ocr, pc, started, next_img, work_queue, result_queue,
                   wstate, witem, taken, dequeued, sentinels_put, joined, processed,
                   results, artifact, writes>>
    /\ timed_out' = TRUE
    /\ UNCHANGED <<evars, dvars>>

\* process_directory: json.dump(results, f) once the loop has ended
Save ==
    /\ pc = "drain"
    /\ ~(processed < Len(images))
    /\ artifact' = results
    /\ writes' = writes + 1
    /\ pc' = "stop_put"
    /\ UNCHANGED <<images, ocr, started, next_img, work_queue, result_queue, wstate,
                   witem, taken, dequeued, sentinels_put, joined, processed, results>>
    /\ timed_out' = FALSE
    /\ UNCHANGED <<evars, dvars>>

\* stop_workers: self.work_queue.put(None), once per worker
StopPut ==
    /\ pc = "stop_put"
    /\ sentinels_put < NumWorkers
    /\ Len(work_queue) < QueueSize
    /\ work_queue' = queue_put(work_queue, NoneItem)
    /\ sentinels_put' = sentinels_put + 1
    /\ pc' = IF sentinels_put + 1 = NumWorkers THEN "join" ELSE pc
    /\ UNCHANGED <<images, ocr, started, next_img, result_queue, wstate, witem,
                   taken, dequeued, joined, processed, results, artifact, writes>>
    /\ timed_out' = FALSE
    /\ UNCHANGED <<evars, dvars>>

\* mutant: stop_workers does not wait for the worker to exit
Join_no_wait ==
    /\ pc = "join"
    /\ joined < NumWorkers
    /\ joined' = joined + 1
    /\ pc' = IF joined + 1 = NumWorkers THEN "done" ELSE pc
    /\ UNCHANGED <<images, ocr, started, next_img, work_queue, result_queue, wstate,
                   witem, taken, dequeued, sentinels_put, processed, results,
                   artifact, writes>>
    /\ timed_out' = FALSE
    /\ UNCHANGED <<evars, dvars>>

\* stop_workers: worker.join() returns for the next worker, which has exited
Join ==
    /\ pc = "join"
    /\ joined < NumWorkers
    /\ wstate[joined + 1] = "exited"
    /\ joined' = joined + 1
    /\ pc' = IF joined + 1 = NumWorkers THEN "done" ELSE pc
    /\ UNCHANGED <<images, ocr, started, next_img, work_queue, result_queue, wstate,
                   witem, taken, dequeued, sentinels_put, processed, results,
                   artifact, writes>>
    /\ timed_out' = FALSE
    /\ UNCHANGED <<evars, dvars>>

----------------------------------------------------------------------------
(* OCRWorker.run                                                           *)

\* item = self.queue_in.get(timeout=60); None ends the loop
\* mutant: the workers share one engine, a job is taken only while no other
\* worker is inside process_image
WorkerGet_one_at_a_time(w) ==
    /\ wstate[w] = "get"
    /\ work_queue # <<>>
    /\ \A v \in Workers : wstate[v] # "busy"
    /\ LET item == queue_head(work_queue)
       IN  /\ witem' = [witem EXCEPT ![w] = item]
           /\ dequeued' = Append(dequeued, item)
           /\ wstate' = [wstate EXCEPT ![w] = IF item = NoneItem THEN "exited" ELSE "busy"]
           /\ taken' = [taken EXCEPT ![w] = IF item = NoneItem THEN @ + 1 ELSE @]
    /\ work_queue' = queue_rest(work_queue)
    /\ UNCHANGED <<images, ocr, pc, started, next_img, result_queue, sentinels_put,
                   joined, processed, results, artifact, writes>>
    /\ timed_out' = timed_out
    /\ UNCHANGED <<evars, dvars>>

WorkerGet(w) ==
    /\ wstate[w] = "get"
    /\ work_queue # <<>>
    /\ LET item == queue_head(work_queue)
       IN  /\ witem' = [witem EXCEPT ![w] = item]
           /\ dequeued' = Append(dequeued, item)
           /\ wstate' = [wstate EXCEPT ![w] = IF item = NoneItem THEN "exited" ELSE "busy"]
           /\ taken' = [taken EXCEPT ![w] = IF item = NoneItem THEN @ + 1 ELSE @]
    /\ work_queue' = queue_rest(work_queue)
    /\ UNCHANGED <<images, ocr, pc, started, next_img, result_queue, sentinels_put,
                   joined, processed, results, artifact, writes>>
    /\ timed_out' = timed_out
    /\ UNCHANGED <<evars, dvars>>

\* the get timed out on the empty queue: except Empty: continue
WorkerTimeout(w) ==
    /\ wstate[w] = "get"
    /\ work_queue = <<>>
    /\ UNCHANGED <<images, ocr, pc, started, next_img, work_queue, result_queue,
                   wstate, witem, taken, dequeued, sentinels_put, joined, processed,
                   results, artifact, writes>>
    /\ timed_out' = timed_out
    /\ UNCHANGED <<evars, dvars>>

\* mutant: a failed job ends the worker's loop
after_job_dies(result) == IF result.success THEN "get" ELSE "exited"

\* the state a worker is in after it has handled one job
after_job(result) == "get"

\* result = self.process_image(item); self.queue_out.put(result)
WorkerProcess(w) ==
    /\ wstate[w] = "busy"
    /\ ocr[witem[w]] # "hang"
    /\ LET result == process_image(witem[w], ocr[witem[w]])
       IN  /\ result_queue' = queue_put(result_queue, result)
           /\ wstate' = [wstate EXCEPT ![w] = after_job(result)]
    /\ witem' = [witem EXCEPT ![w] = NoneItem]
    /\ UNCHANGED <<images, ocr, pc, started, next_img, work_queue, taken,
                   dequeued, sentinels_put, joined, processed, results, artifact,
                   writes>>
    /\ timed_out' = timed_out
    /\ UNCHANGED <<evars, dvars>>

Next ==
    \/ StartWorker
    \/ Enqueue
    \/ BeginDrain
    \/ DrainGet
    \/ DrainTimeout
    \/ Save
    \/ StopPut
    \/ Join
    \/ \E w \in Workers : WorkerGet(w)
    \/ \E w \in Workers : WorkerTimeout(w)
    \/ \E w \in Workers : WorkerProcess(w)

Spec == Init /\ [][Next]_vars

\* Fair scheduling: the main process and every worker keep taking the steps
\* that are enabled.  A queue.get timeout is never forced, and a predict call
\* that hangs never returns.
Fairness ==
    /\ WF_vars(StartWorker)
    /\ WF_vars(Enqueue)
    /\ WF_vars(BeginDrain)
    /\ WF_vars(DrainGet)
    /\ WF_vars(Save)
    /\ WF_vars(StopPut)
    /\ WF_vars(Join)
    /\ \A w \in Workers : WF_vars(WorkerGet(w)) /\ WF_vars(WorkerProcess(w))

\* every predict call returns or raises
FairInit == Init /\ \A p \in DOMAIN ocr : ocr[p] # "hang"

FairSpec == FairInit /\ [][Next]_vars /\ Fairness

\* at most one predict call hangs; result_queue.get(timeout=60) on a queue that
\* stays empty does raise Empty
HungPaths == {p \in DOMAIN ocr : ocr[p] = "hang"}
HangInit == Init /\ Cardinality(HungPaths) <= 1
HangSpec == HangInit /\ [][Next]_vars /\ Fairness /\ WF_vars(DrainTimeout)

----------------------------------------------------------------------------
(* Properties of the pipeline                                              *)

Submitted == {images[i] : i \in 1..next_img}
NoHang == \A p \in DOMAIN ocr : ocr[p] # "hang"
AllExited == \A w \in Workers : wstate[w] = "exited"
FailureKeys == {"path", "error", "success"}
SuccessKeys == {"path", "raw_result", "processed_fields", "raw_texts", "success"}
FieldKeys == {"date_of_birth", "registration_date", "card_number", "sex",
              "district_name", "village_name", "chief_name", "first_name"}

\* C1: when process_directory has written the mapping, its keys are exactly the
\* paths put on work_queue, every scanned path was put, every entry is the
\* outcome of its own path with a boolean success flag, and the number of
\* outcomes counted equals the number of entries (none dropped, none counted twice).
C1_EveryJobExactlyOnce ==
    writes > 0 =>
        /\ DOMAIN artifact = Submitted
        /\ next_img = Len(images)
        /\ processed = Cardinality(DOMAIN artifact)
        /\ \A p \in DOMAIN artifact :
               artifact[p].path = p /\ artifact[p].success \in BOOLEAN

\* C1 witness: a written mapping of a batch larger than the job queue
C1_Witness ==
    /\ writes > 0
    /\ Len(images) > QueueSize
    /\ Cardinality(DOMAIN artifact) = Len(images)

\* C2: a job whose OCR inference returns well-formed detections has a Success
\* outcome carrying the eight-key field record, a job whose inference raises has
\* a Failure outcome; with one job of each kind the written mapping holds one
\* Success and one Failure.
C2_WellFormedJobSucceeds ==
    /\ \A p \in DOMAIN results :
           /\ ocr[p] = "ok" => /\ results[p].success
                               /\ DOMAIN results[p].processed_fields = FieldKeys
           /\ ocr[p] = "raise" => ~results[p].success
    /\ (writes > 0 /\ Len(images) = 2 /\ {ocr[p] : p \in DOMAIN ocr} = {"ok", "raise"}) =>
           /\ Cardinality({p \in DOMAIN artifact : artifact[p].success}) = 1
           /\ Cardinality({p \in DOMAIN artifact : ~artifact[p].success}) = 1

\* C3: a worker that finishes a job pushes exactly one outcome, for that job's
\* path, and goes back to waiting on the job queue; when the job raised (here:
\* the outcome is not a success) the outcome is {path, error, success = false};
\* a worker only ever exits on the stop sentinel.
C3_JobErrorIsolated ==
    [][\A w \in Workers :
          /\ (wstate[w] = "busy" /\ wstate'[w] # "busy") =>
                /\ wstate'[w] = "get"
                /\ Len(result_queue') = Len(result_queue) + 1
                /\ SubSeq(result_queue', 1, Len(result_queue)) = result_queue
                /\ LET outcome == result_queue'[Len(result_queue')]
                   IN  /\ outcome.path = witem[w]
                       /\ ocr[witem[w]] = "raise" => ~outcome.success
                       /\ ~outcome.success =>
                              /\ DOMAIN outcome = FailureKeys
                              /\ outcome.success = FALSE
          /\ (wstate[w] # "exited" /\ wstate'[w] = "exited") =>
                /\ wstate[w] = "get"
                /\ work_queue # <<>> /\ Head(work_queue) = NoneItem
      ]_vars

\* C3 witness: worker v hangs in job 1, so the other worker alone has taken jobs
\* 2 and 3: job 2 raised, its Failure has reached the driver, and the same
\* worker has finished job 3 and waits again
C3_Witness ==
    /\ Len(images) >= 3
    /\ ocr[1] = "hang" /\ ocr[2] = "raise"
    /\ 2 \in DOMAIN results /\ ~results[2].success
    /\ \E v \in Workers : wstate[v] = "busy" /\ witem[v] = 1
    /\ \E w \in Workers : wstate[w] = "get"
    /\ \E k \in 1..Len(result_queue) : result_queue[k].path = 3

\* C4: once the sentinels are on the queue every worker exits, having taken
\* exactly one sentinel, and stop_workers then returns; no worker takes more
\* than one sentinel; every job is dequeued before any sentinel; stop_workers
\* has returned only if all workers have exited.
C4_Shutdown ==
    /\ [](\A w \in Workers : taken[w] <= 1)
    /\ [](\A i, j \in 1..Len(dequeued) :
             (dequeued[i] = NoneItem /\ dequeued[j] # NoneItem) => j < i)
    /\ []((\E i \in 1..Len(dequeued) : dequeued[i] = NoneItem) =>
             \A k \in 1..Len(images) : \E j \in 1..Len(dequeued) : dequeued[j] = images[k])
    /\ [](pc = "done" => AllExited /\ \A w \in Workers : taken[w] = 1)
    /\ (pc = "join") ~> (pc = "done")

\* C4 witness: stop_workers has returned after a batch with jobs
C4_Witness ==
    /\ pc = "done"
    /\ Len(images) >= 2
    /\ AllExited
    /\ Len(dequeued) = Len(images) + NumWorkers

\* C5: if no OCR call hangs, the driver eventually has one outcome per job and
\* has written the mapping, whatever the number of jobs.
C5_BatchCompletes ==
    NoHang ~> (writes = 1 /\ processed = Len(images) /\ DOMAIN artifact = Submitted)

\* C5 witness: a written mapping for more jobs than the job queue holds, with
\* failed jobs among them
C5_Witness ==
    /\ writes = 1
    /\ NoHang
    /\ Len(images) > QueueSize
    /\ \E p \in DOMAIN artifact : ~artifact[p].success
    /\ processed = Len(images)

\* C6: the mapping is written at most once, and only when the number of
\* outcomes counted equals the number of jobs submitted; a result_queue timeout
\* leaves the count, the mapping and the file alone and the driver in its loop.
C6_WrittenOnceWhenComplete ==
    [][/\ writes' <= 1
       /\ writes' # writes =>
             /\ processed = Len(images)
             /\ next_img = Len(images)
             /\ artifact' = results
       /\ (timed_out' /\ ~timed_out) =>
             /\ pc' = "drain"
             /\ processed' = processed
             /\ results' = results
             /\ writes' = writes
             /\ artifact' = artifact
      ]_vars

\* C6 witness: a timeout in the middle of a batch, nothing written yet
C6_Witness ==
    /\ timed_out
    /\ 0 < processed /\ processed < Len(images)
    /\ writes = 0

\* C7 as claimed: every entry of the written mapping has raw detections, a
\* field record with the eight keys, the raw texts and the success flag, and an
\* error text exactly when the job failed.
C7_EveryEntryHasFieldRecord ==
    \A p \in DOMAIN artifact :
        /\ {"raw_result", "processed_fields", "raw_texts", "success"} \subseteq DOMAIN artifact[p]
        /\ DOMAIN artifact[p].processed_fields = FieldKeys
        /\ "error" \in DOMAIN artifact[p] <=> ~artifact[p].success

\* C7 amended: every entry has the path and the success flag, and an error text
\* exactly when the job failed; a failed entry is {path, error, success} and has
\* no raw detections, field record or raw texts; an entry that is a success has
\* raw detections, raw texts and a field record with the eight keys.
C7_EntryShape ==
    \A p \in DOMAIN artifact :
        /\ {"path", "success"} \subseteq DOMAIN artifact[p]
        /\ "error" \in DOMAIN artifact[p] <=> ~artifact[p].success
        /\ ~artifact[p].success => DOMAIN artifact[p] = FailureKeys
        /\ artifact[p].success =>
               /\ DOMAIN artifact[p] = SuccessKeys
               /\ DOMAIN artifact[p].processed_fields = FieldKeys

\* C7 witness: a written mapping with a failed entry
C7_Witness ==
    /\ writes = 1
    /\ \E p \in DOMAIN artifact :
           ~artifact[p].success /\ DOMAIN artifact[p] = FailureKeys


----------------------------------------------------------------------------
(* extract_all_fields applied to bounded inputs                            *)

\* the image: 8 x 8 pixels, so the center is (4, 4)
Image == [height |-> 8, width |-> 8]

T_CARD == <<"A"," ","1","2","3","4","5","6">>
T_FEMALE == <<"f","e","m","a","l","e",".">>
T_KABWE == <<"K","A","B","W","E">>
T_LUSAKA == <<"L","U","S","A","K","A">>
T_DISTRICT == <<"D","I","S","T","R","I","C","T">>
T_CHIEF == <<"C","H","I","E","F">>
T_John == <<"J","o","h","n">>
T_DATE_SHORT_RAW == <<" ","1","-","5","-","9","0">>
T_DATE_TAIL == <<"1","-","5","-","9","0","K","A","B","W","E">>

Det(t, p) == [text |-> t, poly |-> p]

\* detections of every quadrant: card number and sex (Q1), a name (Q2), village
\* and chief candidates (Q3), labels and values (Q4), and one on the center
GeneralPool ==
    {Det(T_CARD, <<<<6, 1>>>>), Det(T_FEMALE, <<<<6, 2>>, <<7, 3>>>>),
     Det(T_John, <<<<1, 1>>>>),
     Det(T_KABWE, <<<<1, 6>>>>), Det(S_NIL, <<<<2, 7>>>>),
     Det(T_DISTRICT, <<<<5, 5>>>>), Det(T_LUSAKA, <<<<6, 5>>>>),
     Det(T_CHIEF, <<<<5, 6>>>>),
     Det(T_John, <<<<4, 4>>>>)}

\* the three date texts, a date followed by other text and a name, at two
\* places of Q2 and one of Q4
DatePool ==
    {Det(t, p) : t \in {T_DATE_DMY, T_DATE_SHORT_RAW, T_DATE_ISO, T_DATE_TAIL, T_John},
                 p \in {<<<<1, 2>>, <<2, 3>>>>, <<<<3, 1>>>>, <<<<6, 6>>>>}}

\* card-number texts at two places of Q1: a letter, a space and six digits; a
\* lower-case z; digits only; five digits only; two letters
T_CARD_Z == <<"z"," ","1","2","3","4","5","6">>
T_CARD_PLAIN == <<"1","2","3","4","5","6","7">>
T_CARD_SHORT == <<"A"," ","1","2","3","4","5">>
T_CARD_TWO == <<"A","B","1","2","3","4","5","6">>
CardPool ==
    {Det(t, p) : t \in {T_CARD, T_CARD_Z, T_CARD_PLAIN, T_CARD_SHORT, T_CARD_TWO},
                 p \in {<<<<5, 2>>>>, <<<<6, 1>>, <<7, 1>>>>}}

\* village and chief candidates, NIL and a label at three heights of Q3, two
\* places on the top one
T_VILLAGE == <<"V","I","L","L","A","G","E">>
Q3Pool ==
    {Det(t, p) : t \in {T_KABWE, T_LUSAKA, S_NIL, T_VILLAGE},
                 p \in {<<<<1, 5>>>>, <<<<3, 5>>>>, <<<<2, 6>>>>, <<<<1, 7>>, <<3, 7>>>>}}

\* the pools well-formed results are built from
Pools == {GeneralPool, DatePool, CardPool, Q3Pool}

\* the detections malformed results are built from
SmallPool ==
    {Det(T_DATE_DMY, <<<<1, 1>>>>), Det(T_John, <<<<2, 2>>>>),
     Det(T_LUSAKA, <<<<6, 6>>>>)}

SeqsUpTo(S, n) == UNION {[1..k -> S] : k \in 0..n}

\* the OCR result with the detections ds
ResultOf(ds) ==
    [input_path |-> 1,
     rec_texts |-> [k \in 1..Len(ds) |-> ds[k].text],
     dt_polys |-> [k \in 1..Len(ds) |-> ds[k].poly]]

DropLast(seq) == SubSeq(seq, 1, Len(seq) - 1)

\* results that are not well-formed: one text or one polygon missing at the end,
\* or one polygon empty
MalformedOf(ds) ==
    {[ResultOf(ds) EXCEPT !.rec_texts = DropLast(@)],
     [ResultOf(ds) EXCEPT !.dt_polys = DropLast(@)]}
    \cup {[ResultOf(ds) EXCEPT !.dt_polys[k] = <<>>] : k \in 1..Len(ds)}

\* labels and values of Q4: DISTRICT and CHIEF labels, a label followed by a
\* colon, two names and NIL
T_DIST == <<"D","I","S","T">>
T_DIST_COLON == <<"D","I","S","T",":">>
T_SUNIL == <<"S","U","N","I","L">>
T_EMPTY == <<>>
Q4Texts == {T_DIST, T_DIST_COLON, T_CHIEF, T_LUSAKA, T_SUNIL, S_NIL, T_EMPTY}

\* the polygon of the k-th of n items of a Q4 column: downwards in input order,
\* or upwards
Q4Poly(k, n, order) ==
    IF order = "down" THEN <<<<6, 4 + k>>, <<6, 5>>>>
    ELSE <<<<6, 5 + n - k>>, <<6, 5>>>>

Q4Column(ts, order) == [k \in 1..Len(ts) |-> Det(ts[k], Q4Poly(k, Len(ts), order))]

\* two Q3 words: KABWE nearest the center, LUSAKA below it
Q3Words == <<Det(T_KABWE, <<<<1, 5>>>>), Det(T_LUSAKA, <<<<2, 6>>>>)>>

\* results with a column of Q4 items, and results with the two Q3 words and a
\* column of CHIEF labels and values
Q4ColumnResults ==
    {ResultOf(Q4Column(ts, order)) :
        ts \in SeqsUpTo(Q4Texts, MaxQ4Items), order \in {"down", "up"}}
    \cup {ResultOf(Q3Words \o Q4Column(ts, order)) :
        ts \in SeqsUpTo({T_CHIEF, T_SUNIL, S_NIL, T_EMPTY}, MaxQ4Items),
        order \in {"down", "up"}}

WellFormedInputs ==
    {[ocr_result |-> ResultOf(ds), image |-> Image] :
        ds \in UNION {SeqsUpTo(P, MaxDetections) : P \in Pools}}
    \cup {[ocr_result |-> r, image |-> Image] : r \in Q4ColumnResults}

MalformedInputs ==
    {[ocr_result |-> r, image |-> Image] :
        r \in UNION {MalformedOf(ds) : ds \in SeqsUpTo(SmallPool, MaxDetections) \ {<<>>}}}

UnreadableInputs ==
    {[ocr_result |-> ResultOf(ds), image |-> NoImage] :
        ds \in SeqsUpTo(SmallPool, MaxDetections)}

ExtractInputs == WellFormedInputs \cup MalformedInputs \cup UnreadableInputs

EInit ==
    /\ ex_pc = "call"
    /\ ex_in \in ExtractInputs
    /\ ex_out = <<>>

\* processed_fields = extract_all_fields(ocr_result, image)
ExtractCall ==
    /\ ex_pc = "call"
    /\ ex_out' = extract_all_fields(ex_in.ocr_result, ex_in.image)
    /\ ex_pc' = "done"
    /\ UNCHANGED ex_in
    /\ UNCHANGED <<pvars, dvars>>

ExtractInit == PStart(<<>>, <<>>) /\ EInit /\ DInitIdle
ExtractNext == ExtractCall
ExtractSpec == ExtractInit /\ [][ExtractNext]_vars

----------------------------------------------------------------------------
(* Properties of extract_all_fields                                        *)

ExtractDone == ex_pc = "done"
InTexts == ex_in.ocr_result.rec_texts
InPolys == ex_in.ocr_result.dt_polys

\* a str: a sequence of characters
Chars == Digits \cup UpperLetters \cup LowerLetters \cup Whitespace \cup {".", "/", "-", ":"}
IsStr(v) == v # None /\ v \in Seq(Chars)

\* C8: on a well-formed input extract_all_fields does not raise and returns a
\* record with exactly the eight keys, each a string or None.
C8_ExtractionTotal ==
    (ExtractDone /\ ex_in \in WellFormedInputs) =>
        /\ ~ex_out.raised
        /\ DOMAIN ex_out.value = FieldKeys
        /\ \A k \in FieldKeys : ex_out.value[k] = None \/ IsStr(ex_out.value[k])

\* C8 witness: a record in which one field is present and every other is absent
C8_Witness ==
    /\ ExtractDone /\ ex_in \in WellFormedInputs
    /\ ~ex_out.raised
    /\ ex_out.value.card_number # None
    /\ \A k \in FieldKeys \ {"card_number"} : ex_out.value[k] = None

\* C9: extract_all_fields raises whenever a polygon is empty or the numbers of
\* texts and polygons differ.
C9_MalformedFails ==
    (ExtractDone /\ ex_in \in MalformedInputs) => ex_out.raised

\* the item made of detection k, the detections of quadrant q whose text is in
\* texts, and the one of them that comes first in (y, x) order, input order
\* among equal keys
ItemOf(k) == annotate(InTexts[k], InPolys[k], Image.width \div 2, Image.height \div 2)
Candidates(q, texts) ==
    {k \in 1..Len(InTexts) : ItemOf(k).quadrant = q /\ ItemOf(k).text \in texts}
FirstOf(C) ==
    CHOOSE k \in C : \A j \in C \ {k} :
        \/ ~KeyLeq(ItemOf(j), ItemOf(k))
        \/ KeyLeq(ItemOf(k), ItemOf(j)) /\ k < j
DateSelected(q, texts) ==
    IF Candidates(q, texts) = {} THEN None ELSE ItemOf(FirstOf(Candidates(q, texts))).text

\* C10 as claimed: each of "12/05/1990", "1-5-90" and "1990-05-12", alone or
\* followed by other text, is accepted: the first Q2 item with such a text is
\* date_of_birth and the first such Q4 item is registration_date.
C10_ThreeFormsSelected ==
    (ExtractDone /\ ex_in \in WellFormedInputs) =>
        LET texts == {T_DATE_DMY, T_DATE_SHORT, T_DATE_TAIL, T_DATE_ISO}
        IN  /\ ex_out.value.date_of_birth = DateSelected("Q2", texts)
            /\ ex_out.value.registration_date = DateSelected("Q4", texts)

\* C10 amended: "12/05/1990" and "1-5-90", alone or followed by other text, are
\* accepted: the first Q2 item with such a text is date_of_birth and the first
\* such Q4 item is registration_date; "1990-05-12" is never selected.
C10_DayFirstFormsSelected ==
    (ExtractDone /\ ex_in \in WellFormedInputs) =>
        LET texts == {T_DATE_DMY, T_DATE_SHORT, T_DATE_TAIL}
        IN  /\ ex_out.value.date_of_birth = DateSelected("Q2", texts)
            /\ ex_out.value.registration_date = DateSelected("Q4", texts)
            /\ ex_out.value.date_of_birth # T_DATE_ISO
            /\ ex_out.value.registration_date # T_DATE_ISO

\* C10 witness: Q2 holds "1990-05-12" above "1-5-90": the second is selected
C10_Witness ==
    /\ ExtractDone /\ ex_in \in WellFormedInputs
    /\ Len(InTexts) = 2
    /\ InTexts[2] = T_DATE_ISO /\ InPolys[2] = <<<<3, 1>>>>
    /\ InTexts[1] = T_DATE_SHORT_RAW /\ InPolys[1] = <<<<1, 2>>, <<2, 3>>>>
    /\ ex_out.value.date_of_birth = T_DATE_SHORT
    /\ ex_out.value.registration_date = None

----------------------------------------------------------------------------
(* classify_point applied to centroids and image sizes                     *)

\* even and odd image sizes, and the pixel coordinates around their centers
ImageSizes == {8, 9}
Coords == 3..6
Points == {<<x, y>> : x \in Coords, y \in Coords}
ClassifyInputs ==
    {[poly |-> p, image |-> [height |-> h, width |-> w]] :
        p \in {<<a>> : a \in Points} \cup {<<a, b>> : a \in Points, b \in Points},
        h \in ImageSizes, w \in ImageSizes}

ClassifyInit ==
    /\ PStart(<<>>, <<>>)
    /\ DInitIdle
    /\ ex_pc = "classify"
    /\ ex_in \in ClassifyInputs
    /\ ex_out = <<>>

\* quadrant = classify_point(avg_x, avg_y) for one polygon of the image
ClassifyCall ==
    /\ ex_pc = "classify"
    /\ ex_out' = classify_point(SumCoord(ex_in.poly, 1), SumCoord(ex_in.poly, 2),
                                Len(ex_in.poly),
                                image_center(ex_in.image).x, image_center(ex_in.image).y)
    /\ ex_pc' = "classified"
    /\ UNCHANGED ex_in
    /\ UNCHANGED <<pvars, dvars>>

ClassifyNext == ClassifyCall
ClassifySpec == ClassifyInit /\ [][ClassifyNext]_vars

\* the quadrant of the centroid (sx / n, sy / n) against the center (w / 2, h / 2)
QuadrantAgainstHalf(sx, sy, n, w, h) ==
    IF 2 * sx > w * n /\ 2 * sy < h * n THEN "Q1"
    ELSE IF 2 * sx < w * n /\ 2 * sy < h * n THEN "Q2"
    ELSE IF 2 * sx < w * n /\ 2 * sy > h * n THEN "Q3"
    ELSE IF 2 * sx > w * n /\ 2 * sy > h * n THEN "Q4"
    ELSE "Mixed"

\* C11 as claimed: for every image size and centroid the quadrant is the one of the
\* centroid against (width / 2, height / 2), Mixed exactly when x = width / 2 or
\* y = height / 2, and always one of the five labels.
C11_QuadrantAgainstCenter ==
    ex_pc = "classified" =>
        /\ ex_out \in {"Q1", "Q2", "Q3", "Q4", "Mixed"}
        /\ ex_out = QuadrantAgainstHalf(SumCoord(ex_in.poly, 1), SumCoord(ex_in.poly, 2),
                                        Len(ex_in.poly),
                                        ex_in.image.width, ex_in.image.height)

\* C11 amended: the center is (width // 2, height // 2),
\* rounded down for odd sizes: the quadrant is Q1 iff x > cx and y < cy, Q2 iff
\* x < cx and y < cy, Q3 iff x < cx and y > cy, Q4 iff x > cx and y > cy, and
\* Mixed iff x = cx or y = cy, for the centroid (x, y) = (sx / n, sy / n).
C11_QuadrantAgainstFloorCenter ==
    ex_pc = "classified" =>
        LET n == Len(ex_in.poly)
            sx == SumCoord(ex_in.poly, 1)
            sy == SumCoord(ex_in.poly, 2)
            cx == (ex_in.image.width - (ex_in.image.width % 2)) \div 2
            cy == (ex_in.image.height - (ex_in.image.height % 2)) \div 2
        IN  /\ ex_out \in {"Q1", "Q2", "Q3", "Q4", "Mixed"}
            /\ ex_out = "Q1" <=> (sx > cx * n /\ sy < cy * n)
            /\ ex_out = "Q2" <=> (sx < cx * n /\ sy < cy * n)
            /\ ex_out = "Q3" <=> (sx < cx * n /\ sy > cy * n)
            /\ ex_out = "Q4" <=> (sx > cx * n /\ sy > cy * n)
            /\ ex_out = "Mixed" <=> (sx = cx * n \/ sy = cy * n)

\* C11 witness: in an image 9 wide a centroid with x = 4.5, on the vertical
\* axis through width / 2, is classified to the right of the center
C11_Witness ==
    /\ ex_pc = "classified"
    /\ ex_in.image.width = 9
    /\ 2 * SumCoord(ex_in.poly, 1) = 9 * Len(ex_in.poly)
    /\ ex_out = "Q4"

\* the text of the first item of quadrant q, in reading order, with a text in texts
FirstTextIn(q, texts) == DateSelected(q, texts)

\* the card number expected for the stripped, upper-cased item text t: spaces
\* removed and Z prepended unless already there; None for a text that is not a
\* letter at most, a space at most and six digits at least
CardExpected(t) ==
    CASE t = T_CARD -> <<"Z","A","1","2","3","4","5","6">>
      [] t = upper(T_CARD_Z) -> <<"Z","1","2","3","4","5","6">>
      [] t = T_CARD_PLAIN -> <<"Z","1","2","3","4","5","6","7">>
      [] OTHER -> None
CardTexts == {T_CARD, upper(T_CARD_Z), T_CARD_PLAIN}

OtherPaths == {images[i] : i \in 1..Len(images)} \ HungPaths

\* C13: when one OCR call hangs forever, the mapping is never written and the
\* driver never leaves process_directory; every other job is eventually
\* dequeued and its outcome received and counted; and the driver ends up
\* in its result loop after a timeout, for ever.
C13_HangStallsOneWorkerOnly ==
    (HungPaths # {}) =>
        /\ [](writes = 0 /\ pc \in {"start_workers", "enqueue", "drain"})
        /\ <>[](/\ DOMAIN results = OtherPaths
                /\ processed = Len(images) - 1
                /\ \A p \in OtherPaths : \E i \in 1..Len(dequeued) : dequeued[i] = p)
        /\ <>[](timed_out /\ pc = "drain")

\* C13 witness: one worker sits in the hanging call, the outcomes of the two
\* other jobs have been received and the driver has timed out waiting
C13_Witness ==
    /\ Len(images) = 3
    /\ Cardinality(HungPaths) = 1
    /\ \E w \in Workers : wstate[w] = "busy" /\ witem[w] \in HungPaths
    /\ DOMAIN results = OtherPaths
    /\ processed = 2
    /\ timed_out /\ pc = "drain" /\ writes = 0

\* C14: whatever the interleaving and the order of arrival, every entry the
\* driver holds is the outcome of its own path, the written mapping is the
\* function of the submitted paths and their outcomes, and only the driver's
\* own steps (taking a result, saving) change the mapping and the file.
C14_MappingOrderIndependent ==
    /\ [](\A p \in DOMAIN results : results[p] = process_image(p, ocr[p]))
    /\ [](writes > 0 => artifact = [p \in Submitted |-> process_image(p, ocr[p])])
    /\ [][/\ (results' # results) =>
                 (/\ pc \in {"enqueue", "drain"} /\ pc' = "drain"
                  /\ wstate' = wstate /\ witem' = witem /\ work_queue' = work_queue)
          /\ (artifact' # artifact) =>
                 (/\ pc = "drain" /\ artifact' = results
                  /\ wstate' = wstate /\ witem' = witem /\ work_queue' = work_queue)
         ]_vars

\* C14 witness: the outcome of the second job has arrived before that of the
\* first, which a worker is still processing
C14_Witness ==
    /\ Len(images) = 2
    /\ pc = "drain"
    /\ DOMAIN results = {images[2]}
    /\ \E w \in Workers : wstate[w] = "busy" /\ witem[w] = images[1]
    /\ ocr[images[1]] # "hang"

\* the items of the input in reading order, the Q3 items among them that survive
\* the label/noise filter, and whether the input has items in quadrant q
SortedItems == sort_items([k \in 1..Len(InTexts) |-> ItemOf(k)])
Q3Survivors == q3_words_of(quadrant_items(SortedItems, "Q3"))
NoItemIn(q) == \A k \in 1..Len(InTexts) : ItemOf(k).quadrant # q
YCenter == image_center(ex_in.image).y

\* among the survivors words: the one closest to the vertical center (the
\* first of them), and those that are other items than it and are not NIL
VillageIndex(words) ==
    SetMin({i \in 1..Len(words) :
               \A j \in 1..Len(words) : ~closer(words[j], words[i], YCenter)})
OtherSurvivors(words, v) ==
    {k \in 1..Len(words) : k # v /\ fuzz_ratio(words[k].text, S_NIL) < 80}
ChiefAmong(words, others) ==
    IF others = {} THEN None ELSE words[SetMin(others)].text
VillageAndChiefAre(words, village, chief) ==
    IF words = <<>>
    THEN village = None /\ chief = None
    ELSE /\ village = words[VillageIndex(words)].text
         /\ chief = ChiefAmong(words, OtherSurvivors(words, VillageIndex(words)))

\* C15: village_name is the text of the Q3 survivor closest to the vertical
\* center; without a Q4 override chief_name is the text of the first survivor
\* that is another item than the village item and is not NIL, also when it
\* carries the same text as the village item.
C15_VillageAndChiefFromQ3 ==
    (ExtractDone /\ ex_in \in WellFormedInputs /\ NoItemIn("Q4")) =>
        VillageAndChiefAre(Q3Survivors, ex_out.value.village_name,
                           ex_out.value.chief_name)

\* the Q4 items of the input in reading order
Q4Items == quadrant_items(SortedItems, "Q4")

\* the Q4 items that pass the fallback conditions as claimed: alphabetic, not
\* NIL by whole-string similarity, no CHIEF or VILLAGE label
FallbackHits(q4) ==
    {k \in 1..Len(q4) :
        /\ isalpha(q4[k].text)
        /\ fuzz_ratio(q4[k].text, S_NIL) < 80
        /\ ~is_similar(q4[k].text, L_CHIEF \o L_VILLAGE)}
FirstHitText(q4, hits) == IF hits = {} THEN None ELSE q4[SetMin(hits)].text
NoLabel(q4, labels) == \A k \in 1..Len(q4) : ~is_similar(q4[k].text, labels)

\* C16: when Q4 holds no DISTRICT label, so that the label rule sets nothing,
\* district_name is the text of the first Q4 item that is alphabetic, has a
\* whole-string similarity to NIL below 80 and matches no CHIEF or VILLAGE
\* label, and is absent when there is no such item.
C16_DistrictFallback ==
    (ExtractDone /\ ex_in \in WellFormedInputs /\ NoLabel(Q4Items, L_DISTRICT)) =>
        ex_out.value.district_name = FirstHitText(Q4Items, FallbackHits(Q4Items))

\* the Q4 items that pass the fallback conditions of the code, which tests NIL
\* by substring similarity
FallbackHitsPartial(q4) ==
    {k \in 1..Len(q4) :
        /\ isalpha(q4[k].text)
        /\ fuzz_partial_ratio(q4[k].text, S_NIL) < 80
        /\ ~is_similar(q4[k].text, L_CHIEF \o L_VILLAGE)}

\* the DISTRICT labels of q4, and those followed by an alphabetic item
DistrictLabels(q4) == {k \in 1..Len(q4) : is_similar(q4[k].text, L_DISTRICT)}
DistrictPairs(q4) ==
    {k \in 1..(Len(q4) - 1) :
        is_similar(q4[k].text, L_DISTRICT) /\ isalpha(q4[k + 1].text)}

\* district as claimed: only the first label counts
DistrictByFirstLabel(q4, labels) ==
    IF labels # {} /\ SetMin(labels) < Len(q4) /\ isalpha(q4[SetMin(labels) + 1].text)
    THEN q4[SetMin(labels) + 1].text
    ELSE FirstHitText(q4, FallbackHitsPartial(q4))

\* district by the first label that is followed by an alphabetic item
DistrictByFirstPair(q4, pairs) ==
    IF pairs # {} THEN q4[SetMin(pairs) + 1].text
    ELSE FirstHitText(q4, FallbackHitsPartial(q4))

\* C17 as claimed: the scan stops at the first Q4 item that matches a DISTRICT
\* label; district_name is its successor if that is alphabetic, and otherwise
\* (also when the label is the last item) what the fallback rule finds.
C17_StopsAtFirstLabel ==
    (ExtractDone /\ ex_in \in WellFormedInputs) =>
        ex_out.value.district_name = DistrictByFirstLabel(Q4Items, DistrictLabels(Q4Items))

\* C17 amended: the scan stops at the first DISTRICT label whose successor is
\* alphabetic and district_name is that successor; labels followed by another
\* kind of item are passed over; without such a pair (also when the only label
\* is the last item) district_name is what the fallback rule finds.
C17_StopsAtFirstLabelledValue ==
    (ExtractDone /\ ex_in \in WellFormedInputs) =>
        ex_out.value.district_name = DistrictByFirstPair(Q4Items, DistrictPairs(Q4Items))

\* C17 witness: DIST, then "DIST:", then LUSAKA down Q4, given bottom-up: the
\* first label is followed by a text that is not alphabetic, the second by LUSAKA
C17_Witness ==
    /\ ExtractDone /\ ex_in \in WellFormedInputs
    /\ InTexts = <<T_LUSAKA, T_DIST_COLON, T_DIST>>
    /\ InPolys = [k \in 1..3 |-> Q4Poly(k, 3, "up")]
    /\ ex_out.value.district_name = T_LUSAKA

\* the chief the Q3 rule chooses
ChiefOfQ3(words) ==
    IF words = <<>> THEN None
    ELSE first_not_none([k \in 1..Len(words) |->
             IF words[k].text # words[VillageIndex(words)].text
                /\ fuzz_ratio(words[k].text, S_NIL) < 80
             THEN words[k].text ELSE None])

\* the CHIEF labels of q4 whose successor is not NIL, and those among them
\* whose successor is not the empty text either
ChiefPairs(q4) ==
    {k \in 1..(Len(q4) - 1) :
        is_similar(q4[k].text, L_CHIEF) /\ fuzz_ratio(q4[k + 1].text, S_NIL) < 80}
ChiefPairsNonEmpty(q4) == {k \in ChiefPairs(q4) : q4[k + 1].text # <<>>}
ChiefBy(q4, pairs, q3chief) ==
    IF pairs # {} THEN q4[SetMin(pairs) + 1].text ELSE q3chief

\* C18 as claimed: when Q4 has a CHIEF label whose successor has a whole-string
\* similarity to NIL below 80, chief_name is the text of (the first) such
\* successor, whatever the Q3 rule chose; otherwise chief_name is what the Q3
\* rule chose.
C18_ChiefOverride ==
    (ExtractDone /\ ex_in \in WellFormedInputs) =>
        ex_out.value.chief_name = ChiefBy(Q4Items, ChiefPairs(Q4Items), ChiefOfQ3(Q3Survivors))

\* C18 amended: as C18, for successors that are not the empty text; a CHIEF
\* label followed by an empty text overrides nothing.
C18_ChiefOverrideNonEmpty ==
    (ExtractDone /\ ex_in \in WellFormedInputs) =>
        ex_out.value.chief_name =
            ChiefBy(Q4Items, ChiefPairsNonEmpty(Q4Items), ChiefOfQ3(Q3Survivors))

\* C18 witness: the Q3 rule chooses LUSAKA, Q4 holds CHIEF followed by SUNIL:
\* chief_name is SUNIL
C18_Witness ==
    /\ ExtractDone /\ ex_in \in WellFormedInputs
    /\ InTexts = <<T_KABWE, T_LUSAKA, T_CHIEF, T_SUNIL>>
    /\ ChiefOfQ3(Q3Survivors) = T_LUSAKA
    /\ ex_out.value.village_name = T_KABWE
    /\ ex_out.value.chief_name = T_SUNIL

\* the Q1 items of the input in reading order, their texts as the sex rule reads
\* them, and the items that pass one of the two tests of the rule
Q1Items == quadrant_items(SortedItems, "Q1")
SexText(item) == rstrip_dot(strip(item.text))
SexLike(q1) ==
    {k \in 1..Len(q1) :
        \/ fuzz_partial_ratio(SexText(q1[k]), S_MALE) >= 80
        \/ fuzz_partial_ratio(SexText(q1[k]), S_FEMALE) >= 80}
FirstReadsFemale(q1, hits) == hits # {} /\ SexText(q1[SetMin(hits)]) = S_FEMALE

\* C19: when the first sex-like item of Q1 reads FEMALE, with or without a
\* trailing dot, the returned sex is Female.
C19_FemaleReadsFemale ==
    (ExtractDone /\ ex_in \in WellFormedInputs /\ FirstReadsFemale(Q1Items, SexLike(Q1Items))) =>
        ex_out.value.sex = V_Female

----------------------------------------------------------------------------
(* The grading dashboard: submit_batch_grades, load_ocr_data, save_ocr_data *)
(* FastAPI runs the handler, a plain def, on a thread pool: requests that   *)
(* arrive together run concurrently.  The handler also writes two batch     *)
(* result files, which it never reads back; they are left out.             *)

Requests == 1..NumRequests

\* image names and OCR keys; "t/" stands for "test_images/"
Names == {<<"a">>, <<"b">>, <<"b", "a">>}
DirPrefix == <<"t", "/">>
KeyOf(name) == DirPrefix \o name

\* an entry as the OCR run wrote it
OcrEntry(key) == [processed_fields |-> key]

\* ocr_results.json as an ordered dict: a sequence of (key, entry), keys distinct
OrderedDicts ==
    {d \in SeqsUpTo({[key |-> KeyOf(n), entry |-> OcrEntry(KeyOf(n))] : n \in Names},
                    Cardinality(Names)) :
        \A i, j \in 1..Len(d) : i # j => d[i].key # d[j].key}

\* the file: complete JSON, just truncated by open(.., 'w'), or bytes of two
\* writers mixed; json.load raises JSONDecodeError on the last two
FileOf(data) == [state |-> "complete", data |-> data]
Truncated == [state |-> "truncated", data |-> <<>>]
Corrupt == [state |-> "corrupt", data |-> <<>>]

\* BatchSubmissionRequest: one image with one field, rated correct, incorrect
\* or not rated
Statuses == {"True", "False", "None"}
RequestBodies ==
    {[results |-> <<[imageName |-> n,
                     fields |-> <<[field |-> "sex", value |-> "Male", status |-> st]>>]>>] :
        n \in Names, st \in Statuses}

\* load_ocr_data(): {} when the file does not hold JSON
load_ocr_data(file) == IF file.state = "complete" THEN file.data ELSE <<>>

\* for key in ocr_data.keys(): if key.endswith(imageName): the first such key
find_image_key(ocr_data, imageName) ==
    LET hits == {k \in 1..Len(ocr_data) : endswith(ocr_data[k].key, imageName)}
    IN  IF hits = {} THEN 0 ELSE SetMin(hits)

\* user_ratings of the fields with a status
RECURSIVE user_ratings_of(_, _)
user_ratings_of(fields, timestamp) ==
    IF fields = <<>> THEN [f \in {} |-> 0]
    ELSE LET before == user_ratings_of(DropLast(fields), timestamp)
             last == fields[Len(fields)]
         IN  IF last.status # "None"
             THEN dict_set(before, last.field,
                           [is_correct |-> last.status, timestamp |-> timestamp])
             ELSE before

\* ocr_data[image_key]["user_ratings"], ["graded_at"], ["is_graded"] are set
grade_entry(entry, fields, timestamp) ==
    dict_set(dict_set(dict_set(entry, "user_ratings", user_ratings_of(fields, timestamp)),
                      "graded_at", timestamp),
             "is_graded", TRUE)

\* ocr_data with the entry at key graded, the key created when missing
grade_at(ocr_data, idx, image_result, timestamp) ==
    IF idx = 0
    THEN Append(ocr_data,
                [key |-> KeyOf(image_result.imageName),
                 entry |-> grade_entry([processed_fields |-> EmptyFields],
                                       image_result.fields, timestamp)])
    ELSE [ocr_data EXCEPT ![idx].entry = grade_entry(@, image_result.fields, timestamp)]

\* the loop over request.results
RECURSIVE grade_all(_, _, _)
grade_all(ocr_data, request_results, timestamp) ==
    IF request_results = <<>> THEN ocr_data
    ELSE grade_all(grade_at(ocr_data,
                            find_image_key(ocr_data, Head(request_results).imageName),
                            Head(request_results), timestamp),
                   Tail(request_results), timestamp)

DashInit ==
    /\ PStart(<<>>, <<>>)
    /\ EInitIdle
    /\ d_file \in {FileOf(d) : d \in OrderedDicts}
    /\ d_before = d_file
    /\ d_req \in [Requests -> RequestBodies]
    /\ d_pc = [r \in Requests |-> "load"]
    /\ d_data = [r \in Requests |-> <<>>]
    /\ d_resp = [r \in Requests |-> ""]

\* ocr_data = load_ocr_data()
SubmitLoad(r) ==
    /\ d_pc[r] = "load"
    /\ d_data' = [d_data EXCEPT ![r] = load_ocr_data(d_file)]
    /\ d_pc' = [d_pc EXCEPT ![r] = "grade"]
    /\ UNCHANGED <<d_file, d_before, d_req, d_resp>>
    /\ UNCHANGED <<pvars, evars>>

\* the loop over request.results on the local ocr_data; the request's number
\* stands for its timestamp
SubmitGrade(r) ==
    /\ d_pc[r] = "grade"
    /\ d_data' = [d_data EXCEPT ![r] = grade_all(@, d_req[r].results, r)]
    /\ d_pc' = [d_pc EXCEPT ![r] = "save"]
    /\ UNCHANGED <<d_file, d_before, d_req, d_resp>>
    /\ UNCHANGED <<pvars, evars>>

\* save_ocr_data: open(OCR_JSON_PATH, 'w') truncates the file
SubmitSaveOpen(r) ==
    /\ d_pc[r] = "save"
    /\ d_file' = Truncated
    /\ d_pc' = [d_pc EXCEPT ![r] = "dump"]
    /\ UNCHANGED <<d_before, d_req, d_data, d_resp>>
    /\ UNCHANGED <<pvars, evars>>

\* save_ocr_data: open raises, the handler answers 500
SubmitSaveFails(r) ==
    /\ d_pc[r] = "save"
    /\ d_resp' = [d_resp EXCEPT ![r] = "error"]
    /\ d_pc' = [d_pc EXCEPT ![r] = "done"]
    /\ UNCHANGED <<d_file, d_before, d_req, d_data>>
    /\ UNCHANGED <<pvars, evars>>

\* save_ocr_data: json.dump and close, then the handler answers success.  The
\* bytes go to offset 0 of the file: when another writer has written since the
\* open, the result is this writer's JSON or, if that is the shorter text, its
\* JSON followed by the rest of the other's
SubmitSaveDump(r) ==
    /\ d_pc[r] = "dump"
    /\ \/ d_file' = FileOf(d_data[r])
       \/ d_file.state # "truncated" /\ d_file' = Corrupt
    /\ d_resp' = [d_resp EXCEPT ![r] = "success"]
    /\ d_pc' = [d_pc EXCEPT ![r] = "done"]
    /\ UNCHANGED <<d_before, d_req, d_data>>
    /\ UNCHANGED <<pvars, evars>>

DashNext ==
    \/ \E r \in Requests : SubmitLoad(r)
    \/ \E r \in Requests : SubmitGrade(r)
    \/ \E r \in Requests : SubmitSaveOpen(r)
    \/ \E r \in Requests : SubmitSaveFails(r)
    \/ \E r \in Requests : SubmitSaveDump(r)

DashSpec == DashInit /\ [][DashNext]_vars

----------------------------------------------------------------------------
(* Claims about the dashboard *)

AllSucceeded == \A r \in Requests : d_pc[r] = "done" /\ d_resp[r] = "success"
ImageOf(r) == d_req[r].results[1]
\* the keys the requests are about: in the file before, or created for a request
KeysInPlay ==
    {d_before.data[k].key : k \in 1..Len(d_before.data)}
        \cup {KeyOf(ImageOf(r).imageName) : r \in Requests}
\* every request names its own image and no other key ends with that name
DifferentImages ==
    /\ \A r1, r2 \in Requests : r1 # r2 => ImageOf(r1).imageName # ImageOf(r2).imageName
    /\ \A r \in Requests : \A key \in KeysInPlay :
           endswith(key, ImageOf(r).imageName) => key = KeyOf(ImageOf(r).imageName)
RatingsRecorded(r) ==
    \E k \in 1..Len(d_file.data) :
        /\ d_file.data[k].key = KeyOf(ImageOf(r).imageName)
        /\ "user_ratings" \in DOMAIN d_file.data[k].entry
        /\ d_file.data[k].entry["user_ratings"] = user_ratings_of(ImageOf(r).fields, r)
OthersUnchanged ==
    \A k \in 1..Len(d_before.data) :
        (\A r \in Requests : d_before.data[k].key # KeyOf(ImageOf(r).imageName))
            => \E j \in 1..Len(d_file.data) : d_file.data[j] = d_before.data[k]

\* C20: when concurrent submit_batch_grades requests, each grading a different
\* image, have all returned success, the OCR results file holds the
\* user_ratings of every one of them, and the entries of the images that no
\* request names are as they were.
C20_NoLostUpdate ==
    (AllSucceeded /\ DifferentImages)
        => /\ d_file.state = "complete"
           /\ \A r \in Requests : RatingsRecorded(r)
           /\ OthersUnchanged

\* the handler of request r has just run its loop over request.results
Graded(r) == d_pc[r] = "grade" /\ d_pc'[r] = "save"
\* the entry of the image named N holds the ratings request r submitted
GradedOnOwnEntry(r) ==
    \E k \in 1..Len(d_data'[r]) :
        /\ d_data'[r][k].key = KeyOf(ImageOf(r).imageName)
        /\ "user_ratings" \in DOMAIN d_data'[r][k].entry
        /\ d_data'[r][k].entry["user_ratings"] = user_ratings_of(ImageOf(r).fields, r)
\* the entries of the other images are as they were loaded
OtherEntriesKept(r) ==
    \A k \in 1..Len(d_data[r]) :
        d_data[r][k].key # KeyOf(ImageOf(r).imageName)
            => k <= Len(d_data'[r]) /\ d_data'[r][k] = d_data[r][k]

\* C21: submit_batch_grades records the ratings submitted for image name N on
\* the entry whose file name is exactly N, creating test_images/N when there is
\* none, and leaves the entry of every other image alone, also when the key
\* of another entry merely ends with N.
C21_RatingsOnExactImage ==
    [][\A r \in Requests : Graded(r) => GradedOnOwnEntry(r) /\ OtherEntriesKept(r)]_vars

----------------------------------------------------------------------------
(* Claims about the village rule *)

Q3Items == quadrant_items(SortedItems, "Q3")
\* the item lies strictly below the vertical center
BelowCenter(i) == i.sy > YCenter * i.n
\* a comes strictly before b in reading order: higher up, or as high and
\* further left
ReadsBefore(a, b) ==
    \/ a.sy * b.n < b.sy * a.n
    \/ a.sy * b.n = b.sy * a.n /\ a.sx * b.n < b.sx * a.n
\* nothing among words reads before its first element
FirstIsTopLeft(words) == \A k \in 1..Len(words) : ~ReadsBefore(words[k], words[1])

\* C22: every Q3 item lies strictly below the vertical center, and whenever
\* village_name is set it is the text of the first Q3 survivor in reading
\* order: the topmost one, the leftmost of the topmost when several are as high.
C22_VillageIsFirstSurvivor ==
    (ExtractDone /\ ex_in \in WellFormedInputs) =>
        /\ \A k \in 1..Len(Q3Items) : BelowCenter(Q3Items[k])
        /\ ex_out.value.village_name # None =>
              /\ Q3Survivors # <<>>
              /\ FirstIsTopLeft(Q3Survivors)
              /\ ex_out.value.village_name = Q3Survivors[1].text

\* two survivors with different texts are as high as each other, and the
\* village is the left one
C22_Witness ==
    /\ ExtractDone /\ ex_in \in WellFormedInputs
    /\ Len(Q3Survivors) = 2
    /\ Q3Survivors[1].sy * Q3Survivors[2].n = Q3Survivors[2].sy * Q3Survivors[1].n
    /\ Q3Survivors[1].sx * Q3Survivors[2].n < Q3Survivors[2].sx * Q3Survivors[1].n
    /\ Q3Survivors[1].text # Q3Survivors[2].text
    /\ ex_out.value.village_name = Q3Survivors[1].text

----------------------------------------------------------------------------
(* Claims about the first name *)

Q2Items == quadrant_items(SortedItems, "Q2")
\* the place in Q2 of the item selected as date_of_birth, 0 when there is none
DobPlace(q2) ==
    LET dates == {k \in 1..Len(q2) : date_regex_match(q2[k].text)}
    IN  IF dates = {} THEN 0 ELSE SetMin(dates)

\* C23: first_name is never taken from the Q2 item selected as date_of_birth:
\* when a date of birth is found, first_name is absent or is the text of
\* another Q2 item, one that does not match the date pattern.
C23_FirstNameIsNotTheDate ==
    (ExtractDone /\ ex_in \in WellFormedInputs /\ DobPlace(Q2Items) # 0) =>
        \/ ex_out.value.first_name = None
        \/ \E k \in 1..Len(Q2Items) :
              /\ k # DobPlace(Q2Items)
              /\ ~date_regex_match(Q2Items[k].text)
              /\ ex_out.value.first_name = Q2Items[k].text

====
